---- MODULE Spec2Model ----
(***************************************************************************)
(* UTMOSv2ModelMixin.predict (src/utmosv2/_core/model/_common.py): the     *)
(* prediction orchestration of the UTMOSv2 MOS predictor.                  *)
(*                                                                         *)
(* An optional value (a Python value that may be None, an attribute that   *)
(* may be absent) is a set of at most one element: None is {} and a        *)
(* present value x is {x}.  A string whose characters matter (a file name, *)
(* an allowlist entry) is the tuple of its characters.  A path argument    *)
(* carries what the file system holds at it (whether it exists, the        *)
(* directory's entries, the list file's lines).  A float is an exact       *)
(* rational <<numerator, denominator>> in lowest terms: rounding of the    *)
(* float arithmetic is not modelled.                                       *)
(***************************************************************************)
EXTENDS Integers, Sequences, FiniteSets, TLC

VARIABLES
    cfg,    \* self._cfg: [sr, remove_silent_section], each optional
    pc,     \* the caller's position: "idle" | "returned"
    call    \* the call that has just ended: arguments, outcome, result

vars == <<cfg, pc, call>>

-----------------------------------------------------------------------------
(* Bounds of the model *)

MaxTensors == 3     \* longest input_tensors list
MaxReps == 2        \* largest num_repetitions
MaxBatch == 2       \* largest batch_size
MaxValLen == 2      \* longest inline val_list
MaxDirFiles == 3    \* most entries of an input directory

-----------------------------------------------------------------------------
(* Optional values *)

None == {}
Some(x) == {x}
Get(o) == CHOOSE x \in o : TRUE

-----------------------------------------------------------------------------
(* Strings as character tuples *)

DotWav == <<".", "w", "a", "v">>

\* Code points of the characters used, for str comparison.
Ord(c) ==
    CASE c = "." -> 46
      [] c = "A" -> 65
      [] c = "a" -> 97
      [] c = "b" -> 98
      [] c = "c" -> 99
      [] c = "d" -> 100
      [] c = "t" -> 116
      [] c = "v" -> 118
      [] c = "w" -> 119
      [] c = "x" -> 120

\* Python's str (and PurePosixPath) ordering: lexicographic by code point.
RECURSIVE StrLess(_, _)
StrLess(s, t) ==
    IF s = <<>> THEN t # <<>>
    ELSE IF t = <<>> THEN FALSE
    ELSE IF s[1] = t[1] THEN StrLess(Tail(s), Tail(t))
    ELSE Ord(s[1]) < Ord(t[1])

EndsWith(s, suf) ==
    /\ Len(s) >= Len(suf)
    /\ SubSeq(s, Len(s) - Len(suf) + 1, Len(s)) = suf

\* str.replace(".wav", ""): every non-overlapping occurrence, left to right.
RECURSIVE ReplaceDotWav(_)
ReplaceDotWav(s) ==
    IF Len(s) < Len(DotWav) THEN s
    ELSE IF SubSeq(s, 1, Len(DotWav)) = DotWav
         THEN ReplaceDotWav(SubSeq(s, Len(DotWav) + 1, Len(s)))
         ELSE <<s[1]>> \o ReplaceDotWav(Tail(s))

\* Mutant of Sorted: the listing in descending order.
RECURSIVE SortedDescending(_)
SortedDescending(S) ==
    IF S = {} THEN <<>>
    ELSE LET m == CHOOSE x \in S : \A y \in S \ {x} : StrLess(y, x)
         IN  <<m>> \o SortedDescending(S \ {m})

\* sorted(paths) of the paths of one directory: ascending by file name.
RECURSIVE Sorted(_)
Sorted(S) ==
    IF S = {} THEN <<>>
    ELSE LET m == CHOOSE x \in S : \A y \in S \ {x} : StrLess(x, y)
         IN  <<m>> \o Sorted(S \ {m})

-----------------------------------------------------------------------------
(* Exact rationals for the float scores *)

RECURSIVE GCD(_, _)
GCD(a, b) == IF b = 0 THEN a ELSE GCD(b, a % b)

Rat(n, d) == LET g == GCD(n, d) IN <<n \div g, d \div g>>
RatAdd(x, y) == Rat(x[1] * y[2] + y[1] * x[2], x[2] * y[2])
RatDiv(x, n) == Rat(x[1], x[2] * n)

-----------------------------------------------------------------------------
(* DatasetSchema (src/utmosv2/dataset/_schema.py) *)

DatasetSchema(file_path, dataset, audio_tensor) ==
    [file_path |-> file_path, dataset |-> dataset, mos |-> None,
     audio_tensor |-> audio_tensor]

-----------------------------------------------------------------------------
(* _prepare_data *)

Range(s) == {s[i] : i \in 1..Len(s)}

\* d.file_path.as_posix().split("/")[-1]: the last component of the path.
FileName(p) == p[Len(p)]

\* val_list_path is given and not val_list_path.exists().
ListFileMissing(in) ==
    /\ in.val_list_path # None
    /\ ~Get(in.val_list_path).exists

\* The local name val_list after the list-file block: an empty list stands
\* in for None, and the file's lines are appended.
ReadValList(in) ==
    IF in.val_list_path = None THEN in.val_list
    ELSE Some((IF in.val_list = None THEN <<>> ELSE Get(in.val_list))
              \o Get(in.val_list_path).lines)

\* The list object the caller passed, as the call leaves it: the local name
\* is the caller's object unless it was None, and extend() works in place.
val_list_object(in) ==
    IF in.val_list = None \/ in.val_list_path = None \/ ListFileMissing(in)
    THEN in.val_list
    ELSE ReadValList(in)

\* input_dir.glob("*.wav"): the entries whose name ends in .wav.
Glob(dir) == {e \in dir.entries : EndsWith(e, DotWav)}

PathRecords(in) ==
    <<DatasetSchema(Some(Get(in.input_path).path), in.predict_dataset, None)>>

DirRecords(in) ==
    LET dir == Get(in.input_dir)
        names == Sorted(Glob(dir))
    IN  [i \in 1..Len(names) |->
            DatasetSchema(Some(dir.path \o <<names[i]>>), in.predict_dataset, None)]

\* The allowlist filter: both sides with every ".wav" replaced by "".
AllowFilter(res, val_list) ==
    LET allowed == {ReplaceDotWav(e) : e \in Range(val_list)}
        Keep(d) == ReplaceDotWav(FileName(Get(d.file_path))) \in allowed
    IN  SelectSeq(res, Keep)

TensorRecords(in) ==
    IF in.input_tensor # None
    THEN <<DatasetSchema(None, in.predict_dataset, in.input_tensor)>>
    ELSE LET ts == Get(in.input_tensors)
         IN  [i \in 1..Len(ts) |->
                 DatasetSchema(None, in.predict_dataset, Some(ts[i]))]

\* The file and directory branch: [raised, res].
FileBranch(in) ==
    LET val_list == ReadValList(in) IN
    IF in.input_path # None /\ ~Get(in.input_path).exists
    THEN [raised |-> "FileNotFoundError", res |-> <<>>]
    ELSE IF in.input_dir # None /\ ~Get(in.input_dir).exists
    THEN [raised |-> "FileNotFoundError", res |-> <<>>]
    ELSE LET listed == IF in.input_path # None THEN PathRecords(in)
                       ELSE DirRecords(in)
         IN  IF in.input_path = None /\ listed = <<>>
             THEN [raised |-> "ValueError", res |-> <<>>]
             ELSE [raised |-> "",
                   res |-> IF val_list # None
                           THEN AllowFilter(listed, Get(val_list))
                           ELSE listed]

\* _prepare_data: [raised, res], raised = "" on a normal return.
prepare_data(in) ==
    IF ListFileMissing(in)
    THEN [raised |-> "FileNotFoundError", res |-> <<>>]
    ELSE LET b == IF in.input_path # None \/ in.input_dir # None
                  THEN FileBranch(in)
                  ELSE IF in.input_tensor # None \/ in.input_tensors # None
                  THEN [raised |-> "", res |-> TensorRecords(in)]
                  ELSE [raised |-> "ValueError", res |-> <<>>]
         IN  IF b.raised = "" /\ b.res = <<>>
             THEN [raised |-> "ValueError", res |-> <<>>]
             ELSE b

-----------------------------------------------------------------------------
(* get_dataset, DataLoader and _predict_impl *)

\* get_dataset(cfg, data, phase): one item per record, in the records' order.
\* Item j of the dataset is named by its index j.
get_dataset(data) == [j \in 1..Len(data) |-> j]

Min(a, b) == IF a < b THEN a ELSE b

\* Mutant of DataLoader: drop_last, the shorter last batch is left out.
DataLoaderDropLast(dataset, batch_size) ==
    [k \in 1..(Len(dataset) \div batch_size) |->
        [m \in 1..batch_size |-> dataset[(k - 1) * batch_size + m]]]

\* DataLoader(dataset, batch_size, shuffle=False): consecutive groups of
\* batch_size items, the last one shorter when the length is no multiple.
DataLoader(dataset, batch_size) ==
    LET n == Len(dataset)
        nb == (n + batch_size - 1) \div batch_size
    IN  [k \in 1..nb |->
            [m \in 1..Min(batch_size, n - (k - 1) * batch_size) |->
                dataset[(k - 1) * batch_size + m]]]

\* self.__call__(*x).squeeze(1).cpu().numpy() on one batch: the stub's value
\* on this pass for each item of the batch.
Forward(vi, batch) == [m \in 1..Len(batch) |-> Rat(vi[batch[m]], 1)]

\* np.concatenate(pred)
RECURSIVE Concatenate(_)
Concatenate(pred) ==
    IF pred = <<>> THEN <<>> ELSE Head(pred) \o Concatenate(Tail(pred))

\* Mutant of Accumulate: res = arr / num_repetitions, each pass overwriting
\* the one before.
AccumulateOverwrite(res, arr, num_repetitions) ==
    [isarray |-> TRUE,
     a |-> [j \in 1..Len(arr) |-> RatDiv(arr[j], num_repetitions)]]

\* res += arr / num_repetitions; res starts as the scalar 0.0, which
\* broadcasts.
Accumulate(res, arr, num_repetitions) ==
    LET part == [j \in 1..Len(arr) |-> RatDiv(arr[j], num_repetitions)]
    IN  IF ~res.isarray THEN [isarray |-> TRUE, a |-> part]
        ELSE [isarray |-> TRUE,
              a |-> [j \in 1..Len(part) |-> RatAdd(res.a[j], part[j])]]

\* The passes: st is [res, calls], calls being the batches handed to the
\* forward pass so far, each with its pass number.
RECURSIVE RepetitionLoop(_, _, _, _, _)
RepetitionLoop(i, st, dataloader, num_repetitions, v) ==
    IF i > num_repetitions THEN st
    ELSE LET pred == [k \in 1..Len(dataloader) |-> Forward(v[i], dataloader[k])]
             seen == [k \in 1..Len(dataloader) |->
                         [pass |-> i, batch |-> dataloader[k]]]
         IN  RepetitionLoop(i + 1,
                            [res |-> Accumulate(st.res, Concatenate(pred),
                                                num_repetitions),
                             calls |-> st.calls \o seen],
                            dataloader, num_repetitions, v)

\* _predict_impl: [raised, res, calls].  A failing forward pass raises on the
\* first batch; with no repetition res is still the scalar and the assert
\* fails.
predict_impl(dataloader, num_repetitions, fault, v) ==
    IF num_repetitions >= 1 /\ fault = "forward"
    THEN [raised |-> "RuntimeError", res |-> <<>>, calls |-> <<>>]
    ELSE LET st == RepetitionLoop(1, [res |-> [isarray |-> FALSE, a |-> <<>>],
                                      calls |-> <<>>],
                                  dataloader, num_repetitions, v)
         IN  IF ~st.res.isarray
             THEN [raised |-> "AssertionError", res |-> <<>>, calls |-> st.calls]
             ELSE [raised |-> "", res |-> st.res.a, calls |-> st.calls]

-----------------------------------------------------------------------------
(* predict *)

Count(b) == IF b THEN 1 ELSE 0

input_modes(in) ==
    Count(in.input_path # None) + Count(in.input_dir # None)
    + Count(in.input_tensor # None) + Count(in.input_tensors # None)

\* Mutant of WrongModes: only a call with no selector at all is refused.
WrongModesNoneGiven(in) == input_modes(in) = 0

\* if input_modes != 1: raise ValueError
WrongModes(in) == input_modes(in) # 1

TensorMode(in) == in.input_tensor # None \/ in.input_tensors # None

\* Mutant of NoSampleRate: the check made for input_tensor alone.
NoSampleRateSingleTensor(in) == in.input_tensor # None /\ in.sample_rate = None

\* if sample_rate is None: raise ValueError (tensor modes only)
NoSampleRate(in) == TensorMode(in) /\ in.sample_rate = None

\* original_sr = getattr(self._cfg, "sr", None), read in the tensor modes
OriginalSr(in, c) == IF TensorMode(in) THEN c.sr ELSE None

\* self._cfg.sr = sample_rate
OverrideSr(in, c) ==
    IF TensorMode(in) THEN [c EXCEPT !.sr = in.sample_rate] ELSE c

\* initial_state = hasattr(...) and self._cfg.dataset.remove_silent_section
InitialState(c) ==
    IF c.remove_silent_section = None THEN FALSE
    ELSE Get(c.remove_silent_section)

\* if remove_silent_section: self._cfg.dataset.remove_silent_section = True
ForceSilence(in, c) ==
    IF in.remove_silent_section
    THEN [c EXCEPT !.remove_silent_section = Some(TRUE)]
    ELSE c

\* after get_dataset: the flag goes back to False when initial_state is false
RestoreSilence(in, initial_state, c) ==
    IF in.remove_silent_section /\ ~initial_state
    THEN [c EXCEPT !.remove_silent_section = Some(FALSE)]
    ELSE c

\* if original_sr is not None: self._cfg.sr = original_sr
RestoreSr(original_sr, c) ==
    IF original_sr # None THEN [c EXCEPT !.sr = original_sr] ELSE c

\* The return value, by input mode.
ShapeResult(in, data, pred) ==
    IF in.input_path # None THEN [shape |-> "float", value |-> pred[1]]
    ELSE IF in.input_tensor # None THEN [shape |-> "float", value |-> pred[1]]
    ELSE IF in.input_tensors # None THEN [shape |-> "list", value |-> pred]
    ELSE [shape |-> "records",
          value |-> [i \in 1..Min(Len(data), Len(pred)) |->
                        [file_path |-> IF data[i].file_path # None
                                       THEN Get(data[i].file_path)
                                       ELSE <<"tensor_input">>,
                         predicted_mos |-> pred[i]]]]

NoResult == [shape |-> "none", value |-> <<>>]

\* An exception leaves predict: the configuration and the caller's list stay
\* as they are at that point.
Raise(exc, c, original_sr, data, val_list) ==
    [outcome |-> exc, cfg |-> c, original_sr |-> original_sr, data |-> data,
     pred |-> <<>>, calls |-> <<>>, result |-> NoResult,
     val_list_object |-> val_list]

\* The part of predict from get_dataset on, entered with the data prepared
\* and the configuration c1 (sample rate overridden).
Infer(in, c1, original_sr, data, v) ==
    LET initial_state == InitialState(c1)
        c2 == ForceSilence(in, c1)
    IN  IF in.fault = "dataset"
        THEN Raise("DatasetError", c2, original_sr, data, val_list_object(in))
        ELSE
        LET dataset == get_dataset(data)
            c3 == RestoreSilence(in, initial_state, c2)
            dataloader == DataLoader(dataset, in.batch_size)
            p == predict_impl(dataloader, in.num_repetitions, in.fault, v)
        IN  IF p.raised # ""
            THEN Raise(p.raised, c3, original_sr, data, val_list_object(in))
            ELSE [outcome |-> "ok",
                  cfg |-> RestoreSr(original_sr, c3),
                  original_sr |-> original_sr,
                  data |-> data,
                  pred |-> p.res,
                  calls |-> p.calls,
                  result |-> ShapeResult(in, data, p.res),
                  val_list_object |-> val_list_object(in)]

\* predict on configuration c, the model stub returning v[i][j] for item j
\* on pass i: [outcome, cfg, original_sr, data, pred, calls, result,
\* val_list_object].
predict(in, c, v) ==
    IF WrongModes(in) THEN Raise("ValueError", c, None, <<>>, in.val_list)
    ELSE IF NoSampleRate(in) THEN Raise("ValueError", c, None, <<>>, in.val_list)
    ELSE LET original_sr == OriginalSr(in, c)
             c1 == OverrideSr(in, c)
             d == prepare_data(in)
         IN  IF d.raised # ""
             THEN Raise(d.raised, c1, original_sr, <<>>, val_list_object(in))
             ELSE Infer(in, c1, original_sr, d.res, v)

\* Whether the call gets as far as the forward passes.
ReachesForward(in) ==
    /\ ~WrongModes(in)
    /\ ~NoSampleRate(in)
    /\ prepare_data(in).raised = ""
    /\ in.fault = "none"

-----------------------------------------------------------------------------
(* The arguments and the environment of a call *)

W(stem) == stem \o DotWav

\* Entries of an input directory.
FileNames ==
    {W(<<"a">>), W(<<"b">>), W(<<"c">>), W(W(<<"a">>)), W(<<"A">>),
     <<"b", ".", "t", "x", "t">>}

\* Entries of an allowlist.
AllowEntries == {<<"a">>, <<"c">>, W(<<"b">>)}

DirPath == <<(<<"d">>)>>

File(exists, name) == [exists |-> exists, path |-> DirPath \o <<name>>]
Dir(exists, entries) == [exists |-> exists, path |-> DirPath, entries |-> entries]
ListFile(exists, lines) == [exists |-> exists, lines |-> lines]

ListFiles ==
    {ListFile(FALSE, <<>>), ListFile(TRUE, <<>>), ListFile(TRUE, <<(<<"c">>)>>)}

SeqsUpTo(S, n) == UNION {[1..k -> S] : k \in 0..n}

\* What the model stub returns for one item on one pass.
Vals == {1, 2}

\* Where a collaborator fails: nowhere, in get_dataset, in the forward pass.
Faults == {"none", "dataset", "forward"}

Args(ip, id, it, its, vl, vlp, rss, sr, n, b, f) ==
    [input_path |-> ip, input_dir |-> id, input_tensor |-> it,
     input_tensors |-> its, val_list |-> vl, val_list_path |-> vlp,
     predict_dataset |-> "sarulab", remove_silent_section |-> rss,
     sample_rate |-> sr, num_repetitions |-> n, batch_size |-> b,
     fault |-> f]

\* Every combination of the four selectors, with and without a sample rate,
\* an allowlist, silence removal and a failing collaborator.
ModeArgs ==
    {Args(ip, id, it, its, vl, vlp, rss, sr, 1, 1, f) :
        ip \in {None, Some(File(TRUE, W(<<"a">>)))},
        id \in {None, Some(Dir(TRUE, {W(<<"a">>), W(<<"b">>)}))},
        it \in {None, Some(1)},
        its \in {None, Some(<<>>), Some(<<1, 2>>)},
        vl \in {None, Some(<<(<<"a">>)>>)},
        vlp \in {None} \cup {Some(l) : l \in ListFiles},
        rss \in BOOLEAN,
        sr \in {None, Some(8000), Some(16000)},
        f \in Faults}

Dirs ==
    {Dir(FALSE, {})}
    \cup {Dir(TRUE, S) : S \in {T \in SUBSET FileNames : Cardinality(T) <= MaxDirFiles}}

Files == {File(FALSE, W(<<"a">>)), File(TRUE, W(<<"a">>)), File(TRUE, W(W(<<"a">>)))}

\* The file and directory modes with every allowlist.
AllowArgs ==
    {Args(sel[1], sel[2], None, None, vl, vlp, FALSE, None, 1, 2, "none") :
        sel \in {<<Some(x), None>> : x \in Files}
                \cup {<<None, Some(x)>> : x \in Dirs},
        vl \in {None} \cup {Some(l) : l \in SeqsUpTo(AllowEntries, MaxValLen)},
        vlp \in {None} \cup {Some(l) : l \in ListFiles}}

\* Every number of tensors, of repetitions and every batch size.
InferArgs ==
    {Args(sel[1], None, sel[2], sel[3], None, vlp, TRUE, sr, n, b, f) :
        sel \in {<<Some(File(TRUE, W(<<"a">>))), None, None>>,
                 <<None, Some(1), None>>}
                \cup {<<None, None, Some([j \in 1..k |-> j])>> : k \in 0..MaxTensors},
        sr \in {Some(16000)},
        vlp \in {None, Some(ListFile(FALSE, <<>>))},
        n \in 0..MaxReps,
        b \in 1..MaxBatch,
        f \in Faults}

\* The values the stub can return over a call: one per pass and item, when
\* the call gets to the forward passes.
StubOutputs(in) ==
    IF ReachesForward(in)
    THEN [1..in.num_repetitions -> [1..Len(prepare_data(in).res) -> Vals]]
    ELSE {<<>>}

-----------------------------------------------------------------------------
(* The state machine *)

NoCall == [outcome |-> "none"]

\* The configuration a model is created with: a sample rate is set, and the
\* dataset settings hold remove_silent_section true, false or not at all.
Init ==
    /\ cfg \in {[sr |-> Some(16000), remove_silent_section |-> f] :
                    f \in {None, Some(TRUE), Some(FALSE)}}
    /\ pc = "idle"
    /\ call = NoCall

\* One whole call of predict with arguments in.
Predict(in) ==
    /\ pc = "idle"
    /\ \E v \in StubOutputs(in) :
        LET r == predict(in, cfg, v) IN
        /\ cfg' = r.cfg
        /\ call' = [in |-> in, pre |-> cfg, v |-> v,
                    outcome |-> r.outcome, original_sr |-> r.original_sr,
                    data |-> r.data, pred |-> r.pred, calls |-> r.calls,
                    result |-> r.result,
                    val_list_object |-> r.val_list_object]
    /\ pc' = "returned"

\* The caller takes the result (or the exception) and is ready to call again.
Return ==
    /\ pc = "returned"
    /\ pc' = "idle"
    /\ call' = NoCall
    /\ UNCHANGED cfg

PredictModes == \E in \in ModeArgs : Predict(in)
PredictAllow == \E in \in AllowArgs : Predict(in)
PredictInfer == \E in \in InferArgs : Predict(in)

\* Calls over every combination of selectors, sample rate and failure.
Next == PredictModes \/ Return
Spec == Init /\ [][Next]_vars

\* Calls in the file and directory modes over every allowlist.
NextAllow == PredictAllow \/ Return
SpecAllow == Init /\ [][NextAllow]_vars

\* Calls over every number of items, repetitions and batch size.
NextInfer == PredictInfer \/ Return
SpecInfer == Init /\ [][NextInfer]_vars

-----------------------------------------------------------------------------
(* Properties *)

Returned == pc = "returned"

\* The number of selectors that are not None, counted from the arguments.
NonNullSelectors(in) ==
    Cardinality({k \in {"input_path", "input_dir", "input_tensor", "input_tensors"} :
                    in[k] # None})

\* A call with exactly one selector, a tensor or a tensor list.
TensorCall(in) ==
    /\ NonNullSelectors(in) = 1
    /\ (in.input_tensor # None \/ in.input_tensors # None)

\* The arithmetic mean over the passes of the stub's values for item j.
RECURSIVE SumOver(_, _, _)
SumOver(v, j, n) == IF n = 0 THEN 0 ELSE v[n][j] + SumOver(v, j, n - 1)
MeanOf(v, j, n) == Rat(SumOver(v, j, n), n)

\* A name with one trailing ".wav" removed.
StripSuffix(s) == IF EndsWith(s, DotWav) THEN SubSeq(s, 1, Len(s) - Len(DotWav)) ELSE s

\* C1: after a call in a tensor mode with a sample rate supplied, however the
\* call ends, the configuration's sr is what it was before the call.
C1_SampleRateRestored ==
    (Returned /\ TensorCall(call.in) /\ call.in.sample_rate # None)
        => cfg.sr = call.pre.sr

\* C2: after any call, however it ends and whether or not silence removal was
\* requested, the configuration's remove_silent_section is in its state of
\* before the call (true, false or absent).
C2_SilenceFlagRestored ==
    Returned => cfg.remove_silent_section = call.pre.remove_silent_section

\* C3: a call with no selector or with two or more fails with ValueError,
\* whatever the other arguments, before anything is done; a call that gets
\* past the check has exactly one selector.
C3_ExactlyOneSelector ==
    Returned =>
        /\ NonNullSelectors(call.in) # 1 =>
              /\ call.outcome = "ValueError"
              /\ cfg = call.pre
              /\ call.original_sr = None
              /\ call.val_list_object = call.in.val_list
        /\ (call.outcome # "ValueError" \/ call.original_sr # None
            \/ cfg # call.pre) => NonNullSelectors(call.in) = 1

\* C3's case: two selectors, a sample rate and a missing list file.
C3_Witness ==
    /\ Returned
    /\ NonNullSelectors(call.in) = 2
    /\ call.in.input_tensor # None
    /\ call.in.sample_rate = Some(8000)
    /\ ListFileMissing(call.in)
    /\ call.outcome = "ValueError"

\* C4: a tensor or tensor-list call without a sample rate fails with
\* ValueError whatever the other arguments, and the configuration's sr is
\* neither read nor written.
C4_SampleRateRequired ==
    (Returned /\ TensorCall(call.in) /\ call.in.sample_rate = None) =>
        /\ call.outcome = "ValueError"
        /\ call.original_sr = None
        /\ cfg = call.pre
        /\ call.val_list_object = call.in.val_list

\* C4's case: a tensor list, no sample rate, a missing list file.
C4_Witness ==
    /\ Returned
    /\ TensorCall(call.in)
    /\ call.in.input_tensors = Some(<<1, 2>>)
    /\ call.in.sample_rate = None
    /\ ListFileMissing(call.in)
    /\ call.outcome = "ValueError"

\* The result is the list of the k items' scores, in the input's order.
ScoresInOrder(k) ==
    /\ call.result.shape = "list"
    /\ Len(call.result.value) = k
    /\ \A i \in 1..k :
          call.result.value[i] = MeanOf(call.v, i, call.in.num_repetitions)

NamesOf(data) == [i \in 1..Len(data) |-> FileName(Get(data[i].file_path))]

\* The records of the file or directory before the allowlist filter.
Listed(in) ==
    IF in.input_path # None THEN <<FileName(Get(in.input_path).path)>>
    ELSE Sorted(Glob(Get(in.input_dir)))

\* The allowlist of a call: the inline list and the list file's lines.
Allowlist(in) ==
    (IF in.val_list = None THEN {} ELSE Range(Get(in.val_list)))
    \cup (IF in.val_list_path = None THEN {}
          ELSE Range(Get(in.val_list_path).lines))

\* C6: in the file and directory modes with an allowlist, the records kept
\* are exactly those whose name less its .wav suffix equals an allowlist
\* entry less its .wav suffix, in the listing's order (and the call fails
\* with ValueError when none is kept).
C6_SuffixStrippedMatch ==
    (/\ Returned
     /\ NonNullSelectors(call.in) = 1
     /\ (call.in.input_path # None \/ call.in.input_dir # None)
     /\ (call.in.val_list # None \/ call.in.val_list_path # None)
     /\ call.outcome \in {"ok", "ValueError"}
     /\ Listed(call.in) # <<>>) =>
        LET allowed == {StripSuffix(e) : e \in Allowlist(call.in)}
            Kept(name) == StripSuffix(name) \in allowed
            expected == SelectSeq(Listed(call.in), Kept)
        IN  IF expected = <<>> THEN call.outcome = "ValueError"
            ELSE call.outcome = "ok" /\ NamesOf(call.data) = expected

\* C7: in the tensor modes the outcome and the records are those of the same
\* call without val_list and val_list_path, and never FileNotFoundError.
C7_AllowlistIgnoredForTensors ==
    (Returned /\ TensorCall(call.in) /\ call.in.sample_rate # None) =>
        LET plain == predict([call.in EXCEPT !.val_list = None,
                                             !.val_list_path = None],
                             call.pre, call.v)
        IN  /\ call.outcome # "FileNotFoundError"
            /\ call.outcome = plain.outcome
            /\ call.data = plain.data

\* C8: a directory call that returns gives one {file_path, predicted_mos}
\* record per record of the normalized data, the paths being .wav entries of
\* the directory in ascending order, and the i-th predicted_mos being the
\* i-th score, the one computed for the i-th file.
C8_DirectoryRecordsAligned ==
    (Returned /\ call.in.input_dir # None /\ call.outcome = "ok") =>
        LET out == call.result.value
            dir == Get(call.in.input_dir)
        IN  /\ call.result.shape = "records"
            /\ Len(out) = Len(call.data)
            /\ \A i \in 1..Len(out) :
                  /\ out[i].file_path = Get(call.data[i].file_path)
                  /\ out[i].file_path = dir.path \o <<FileName(out[i].file_path)>>
                  /\ FileName(out[i].file_path) \in dir.entries
                  /\ EndsWith(FileName(out[i].file_path), DotWav)
                  /\ out[i].predicted_mos = call.pred[i]
                  /\ out[i].predicted_mos
                        = MeanOf(call.v, i, call.in.num_repetitions)
            /\ \A i, j \in 1..Len(out) :
                  i < j => StrLess(FileName(out[i].file_path),
                                   FileName(out[j].file_path))
            /\ (call.in.val_list = None /\ call.in.val_list_path = None) =>
                  {FileName(out[i].file_path) : i \in 1..Len(out)}
                      = {e \in dir.entries : EndsWith(e, DotWav)}

\* C8's case: a.wav, b.wav and c.wav with the allowlist [a, c] give a.wav
\* then c.wav, each with its own score.
C8_Witness ==
    /\ Returned
    /\ call.in.input_dir = Some(Dir(TRUE, {W(<<"a">>), W(<<"b">>), W(<<"c">>)}))
    /\ call.in.val_list = Some(<<(<<"a">>), (<<"c">>)>>)
    /\ call.in.val_list_path = None
    /\ call.outcome = "ok"
    /\ call.v = <<(<<1, 2>>)>>
    /\ call.result.value =
          <<[file_path |-> DirPath \o <<W(<<"a">>)>>, predicted_mos |-> Rat(1, 1)],
            [file_path |-> DirPath \o <<W(<<"c">>)>>, predicted_mos |-> Rat(2, 1)]>>

\* The batches handed to the forward pass on pass i, in the order handed.
BatchesOfPass(i) ==
    LET Mine(c) == c.pass = i
        mine == SelectSeq(call.calls, Mine)
    IN  [k \in 1..Len(mine) |-> mine[k].batch]

\* C9: a call that returns ran n >= 1 passes; the score array has one element
\* per record, the j-th being the mean over the passes of the stub's values
\* for item j; and each pass handed the forward pass, one after the other,
\* batches of at most batch_size items that together are the items in order.
C9_RepetitionMean ==
    (Returned /\ call.outcome = "ok") =>
        LET n == call.in.num_repetitions
            N == Len(call.data)
        IN  /\ n >= 1
            /\ Len(call.pred) = N
            /\ \A j \in 1..N : call.pred[j] = MeanOf(call.v, j, n)
            /\ \A k \in 1..Len(call.calls) :
                  /\ call.calls[k].pass \in 1..n
                  /\ Len(call.calls[k].batch) \in 1..call.in.batch_size
                  /\ k > 1 => call.calls[k - 1].pass <= call.calls[k].pass
            /\ \A i \in 1..n :
                  Concatenate(BatchesOfPass(i)) = [j \in 1..N |-> j]

\* C9's case: two passes over three items in batches of two, the stub
\* returning 1, 2, 1 and then 2, 2, 1.
C9_Witness ==
    /\ Returned
    /\ call.outcome = "ok"
    /\ call.in.num_repetitions = 2
    /\ call.in.batch_size = 2
    /\ call.v = <<(<<1, 2, 1>>), (<<2, 2, 1>>)>>
    /\ call.pred = <<Rat(3, 2), Rat(2, 1), Rat(1, 1)>>
    /\ Len(call.calls) = 4

\* C10: after any call the list the caller passed as val_list holds the
\* entries it held before the call.
C10_ValListUnchanged ==
    Returned => call.val_list_object = call.in.val_list

====
